---- MODULE Spec2Model ----
(***************************************************************************)
(* Model of flow/visualize/visualizer_rllib.py: the __main__ block of the  *)
(* rllib visualizer.  The script is one sequential process; pc is its      *)
(* position, the other variables are its locals and the observable effects *)
(* of the calls it makes on the external agent and environment.            *)
(***************************************************************************)
EXTENDS Integers, Sequences, FiniteSets, TLC

VARIABLES
    pc,             \* position of the script
    args,           \* parsed command line (line 74)
    result_dir,     \* what the result directory holds (config and pickle)
    environ,        \* os.environ['MULTIAGENT'] ("unset" when absent)
    config,         \* dict returned by get_rllib_config, later modified
    pkl,            \* dict returned by get_rllib_pkl
    multiagent,     \* the mode flag of lines 84-90
    horizon,        \* env_params.horizon
    vehicles,       \* the object the local name `vehicles` is bound to
    rets,           \* list (single-agent) or dict policy -> list (multi-agent)
    final_outflows, \* list
    mean_speed,     \* list
    i,              \* index of the outer for loop
    steps,          \* iterations of the inner for loop done in this rollout
    vel,            \* per-rollout list of speed samples
    state,          \* last observation: set of agent ids (multi-agent)
    done,           \* done (single-agent) or done['__all__'] (multi-agent)
    ret,            \* per-rollout return: number, or dict policy -> [number]
    env,            \* the external environment: episode, clock, speed, paid
    trace,          \* every external call and print, in program order
    failedAt        \* "" or the call whose failure ended the run

vars == <<pc, args, result_dir, environ, config, pkl, multiagent, horizon,
          vehicles, rets, final_outflows, mean_speed, i, steps, vel, state,
          done, ret, env, trace, failedAt>>

----------------------------------------------------------------------------
(* Bounds of the model *)

MaxRollouts == 2
MaxHorizon == 2

(* Program constant: the window of get_outflow_rate (line 185) *)
OutflowWindow == 500

Agents == {"a1", "a2"}
Policies == {"p1", "p2"}
Rewards == {0, 1}

\* the reward dicts a multi-agent env.step may return
MultiRewards == { [a \in Agents |-> IF a = "a1" THEN 1 ELSE 0],
                  [a \in Agents |-> IF a = "a1" THEN 0 ELSE 2] }

\* The simulator is deterministic: the mean vehicle speed it reports is fixed
\* by the episode and the number of steps taken in it.  The profile differs
\* from step to step and from episode to episode.
SpeedAt(episode, clock) == 1 + ((episode + 2 * clock) % 3)

----------------------------------------------------------------------------
(* Python dicts are functions with a finite domain; a list is a sequence *)

EmptyDict == [k \in {} |-> 0]

\* d.get(k, default)
Get(d, k, default) == IF k \in DOMAIN d THEN d[k] ELSE default

\* d[k] = v
SetItem(d, k, v) == [x \in (DOMAIN d) \cup {k} |-> IF x = k THEN v ELSE d[x]]

\* bool(d) of a dict
Truthy(d) == DOMAIN d # {}

RECURSIVE SumSeq(_)
SumSeq(s) == IF s = <<>> THEN 0 ELSE s[1] + SumSeq(Tail(s))

\* np.mean of a list of numbers, kept exact as sum over count; the mean of
\* an empty list is NaN
NpMean(s) == IF Len(s) = 0 THEN [nan |-> TRUE, sum |-> 0, n |-> 0]
             ELSE [nan |-> FALSE, sum |-> SumSeq(s), n |-> Len(s)]

----------------------------------------------------------------------------
(* The result directories the script may be pointed at.  config is what    *)
(* get_rllib_config returns, pkl what get_rllib_pkl returns.               *)

Graphs(S) == [p \in S |-> "graph"]

MultiCfg(S, f) == [policy_graphs |-> Graphs(S), policy_mapping_fn |-> f]

SplitMap == [a \in Agents |-> IF a = "a1" THEN "p1" ELSE "p2"]
SharedMap == [a \in Agents |-> "p1"]

ResultDirs ==
    { \* single-agent run of an rllib without the 'multiagent' key
      [config |-> [num_workers |-> 2], pkl |-> [num_workers |-> 2]],
      \* 'multiagent' present, no 'policy_graphs' key
      [config |-> [num_workers |-> 2, multiagent |-> [policies_to_train |-> "None"]],
       pkl |-> [num_workers |-> 2, multiagent |-> [policies_to_train |-> "None"]]],
      \* 'multiagent' present with an empty policy_graphs
      [config |-> [num_workers |-> 2, multiagent |-> MultiCfg({}, SharedMap)],
       pkl |-> [num_workers |-> 2, multiagent |-> MultiCfg({}, SharedMap)]],
      \* two policies, one agent each
      [config |-> [num_workers |-> 2, multiagent |-> [policy_graphs |-> Graphs(Policies)]],
       pkl |-> [num_workers |-> 2, multiagent |-> MultiCfg(Policies, SplitMap)]],
      \* two policies, both agents mapped to the first one
      [config |-> [num_workers |-> 2, multiagent |-> [policy_graphs |-> Graphs(Policies)]],
       pkl |-> [num_workers |-> 2, multiagent |-> MultiCfg(Policies, SharedMap)]],
      \* one policy, and a mapping function that names a policy without graph
      [config |-> [num_workers |-> 2, multiagent |-> [policy_graphs |-> Graphs({"p1"})]],
       pkl |-> [num_workers |-> 2, multiagent |-> MultiCfg({"p1"}, SplitMap)]],
      \* a pickle without the 'multiagent' key
      [config |-> [num_workers |-> 2, multiagent |-> [policy_graphs |-> Graphs({"p1"})]],
       pkl |-> [num_workers |-> 2]] }

----------------------------------------------------------------------------
(* An uncaught exception: the interpreter unwinds and the process exits *)

\* the exception is caught and the script carries on where it was
RaiseAndGoOn(at) ==
    /\ pc' = pc
    /\ failedAt' = at

Raise(at) ==
    /\ pc' = "failed"
    /\ failedAt' = at

\* the trace extended by the events evs, each stamped with the episode e
\* of the environment it happens in
Log(evs, e) == trace \o [n \in 1..Len(evs) |-> evs[n] @@ [episode |-> e]]

Call(ev) == trace' = Log(<<ev>>, env.episode)

\* rewards the environment has handed out in the running episode, per agent
\* id; a single-agent environment has the one agent "agent"
ZeroPaid == [a \in Agents \cup {"agent"} |-> 0]

Init ==
    /\ pc = "get_rllib_config"
    /\ args \in [num_rollouts : 0..MaxRollouts, emission_to_csv : BOOLEAN]
    /\ result_dir \in ResultDirs
    /\ environ = "unset"
    /\ config = EmptyDict
    /\ pkl = EmptyDict
    /\ multiagent = FALSE
    /\ horizon = 0
    /\ vehicles = [obj |-> "unbound", episode |-> 0]
    /\ rets = <<>>
    /\ final_outflows = <<>>
    /\ mean_speed = <<>>
    /\ i = 0
    /\ steps = 0
    /\ vel = <<>>
    /\ state = {}
    /\ done = FALSE
    /\ ret = 0
    /\ env = [built |-> FALSE, episode |-> 0, clock |-> 0, speed |-> 1,
              paid |-> ZeroPaid]
    /\ trace = <<>>
    /\ failedAt = ""

----------------------------------------------------------------------------
(* Lines 79-106: configuration, mode detection, agent *)

\* line 79
GetRllibConfig ==
    /\ pc = "get_rllib_config"
    /\ \/ /\ config' = result_dir.config
          /\ pc' = "get_rllib_pkl"
          /\ UNCHANGED failedAt
       \/ /\ Raise("get_rllib_config")
          /\ UNCHANGED config
    /\ UNCHANGED <<args, result_dir, environ, pkl, multiagent, horizon,
                   vehicles, rets, final_outflows, mean_speed, i, steps, vel,
                   state, done, ret, env, trace>>

\* line 80
GetRllibPkl ==
    /\ pc = "get_rllib_pkl"
    /\ \/ /\ pkl' = result_dir.pkl
          /\ pc' = "detect_multiagent"
          /\ UNCHANGED failedAt
       \/ /\ Raise("get_rllib_pkl")
          /\ UNCHANGED pkl
    /\ UNCHANGED <<args, result_dir, environ, config, multiagent, horizon,
                   vehicles, rets, final_outflows, mean_speed, i, steps, vel,
                   state, done, ret, env, trace>>

\* the presence of the key is tested, not the truth of the dict
IsMultiagentKeyOnly(cfg) ==
    "policy_graphs" \in DOMAIN Get(cfg, "multiagent", EmptyDict)

\* line 84: config.get('multiagent', {}).get('policy_graphs', {})
IsMultiagent(cfg) ==
    Truthy(Get(Get(cfg, "multiagent", EmptyDict), "policy_graphs", EmptyDict))

\* lines 84-90; pkl['multiagent'] raises KeyError when the key is missing,
\* after multiagent has been bound to True
DetectMultiagent ==
    /\ pc = "detect_multiagent"
    /\ IF IsMultiagent(config)
       THEN /\ multiagent' = TRUE
            /\ IF "multiagent" \in DOMAIN pkl
               THEN /\ config' = SetItem(config, "multiagent", pkl["multiagent"])
                    /\ environ' = "True"
                    /\ pc' = "ray_init"
                    /\ UNCHANGED failedAt
               ELSE /\ Raise("pkl['multiagent']")
                    /\ UNCHANGED <<config, environ>>
       ELSE /\ multiagent' = FALSE
            /\ pc' = "ray_init"
            /\ UNCHANGED <<config, environ, failedAt>>
    /\ UNCHANGED <<args, result_dir, pkl, horizon, vehicles, rets,
                   final_outflows, mean_speed, i, steps, vel, state, done,
                   ret, env, trace>>

\* lines 93-94
RayInit ==
    /\ pc = "ray_init"
    /\ \/ /\ config' = SetItem(config, "num_workers", 1)
          /\ pc' = "get_flow_params"
          /\ UNCHANGED failedAt
       \/ /\ Raise("ray.init")
          /\ UNCHANGED config
    /\ UNCHANGED <<args, result_dir, environ, pkl, multiagent, horizon,
                   vehicles, rets, final_outflows, mean_speed, i, steps, vel,
                   state, done, ret, env, trace>>

\* lines 96-101: the flow parameters stored in the configuration; the
\* horizon of flow_params['env'] is any number of steps
GetFlowParams ==
    /\ pc = "get_flow_params"
    /\ \/ /\ \E h \in 0..MaxHorizon : horizon' = h
          /\ pc' = "get_agent_class"
          /\ UNCHANGED failedAt
       \/ /\ Raise("get_flow_params")
          /\ UNCHANGED horizon
    /\ UNCHANGED <<args, result_dir, environ, config, pkl, multiagent,
                   vehicles, rets, final_outflows, mean_speed, i, steps, vel,
                   state, done, ret, env, trace>>

\* lines 103-104
GetAgentClass ==
    /\ pc = "get_agent_class"
    /\ \/ /\ pc' = "restore"
          /\ UNCHANGED failedAt
       \/ Raise("get_agent_class")
    /\ UNCHANGED <<args, result_dir, environ, config, pkl, multiagent,
                   horizon, vehicles, rets, final_outflows, mean_speed, i,
                   steps, vel, state, done, ret, env, trace>>

\* lines 105-106
Restore ==
    /\ pc = "restore"
    /\ \/ /\ pc' = "build_env"
          /\ UNCHANGED failedAt
       \/ Raise("agent.restore")
    /\ UNCHANGED <<args, result_dir, environ, config, pkl, multiagent,
                   horizon, vehicles, rets, final_outflows, mean_speed, i,
                   steps, vel, state, done, ret, env, trace>>

\* lines 109-137: scenario and environment; line 111 binds the local name
\* vehicles to flow_params['veh']
BuildEnv ==
    /\ pc = "build_env"
    /\ \/ /\ vehicles' = [obj |-> "flow_params['veh']", episode |-> 0]
          /\ env' = [env EXCEPT !.built = TRUE]
          /\ pc' = "init_rets"
          /\ UNCHANGED failedAt
       \/ /\ Raise("env_class")
          /\ UNCHANGED <<vehicles, env>>
    /\ UNCHANGED <<args, result_dir, environ, config, pkl, multiagent,
                   horizon, rets, final_outflows, mean_speed, i, steps, vel,
                   state, done, ret, trace>>

\* lines 139-147
InitialRets(multi, cfg) ==
    IF multi
    THEN [key \in DOMAIN cfg["multiagent"]["policy_graphs"] |-> <<>>]
    ELSE <<>>

\* lines 139-149
InitRets ==
    /\ pc = "init_rets"
    /\ rets' = InitialRets(multiagent, config)
    /\ final_outflows' = <<>>
    /\ mean_speed' = <<>>
    /\ i' = 0
    /\ pc' = "for_rollout"
    /\ UNCHANGED <<args, result_dir, environ, config, pkl, multiagent,
                   horizon, vehicles, steps, vel, state, done, ret, env,
                   trace, failedAt>>

----------------------------------------------------------------------------
(* Lines 150-193: the rollout loop *)

\* range(args.num_rollouts + 1)
MoreRolloutsInclusive(k, n) == k <= n

\* line 150: for i in range(args.num_rollouts)
MoreRollouts(k, n) == k < n

\* range(env_params.horizon + 1)
MoreStepsInclusive(k, h) == k <= h

\* line 159: for _ in range(env_params.horizon)
MoreSteps(k, h) == k < h

\* lines 154-157
InitialRet(multi, rs) ==
    IF multi THEN [key \in DOMAIN rs |-> <<0>>] ELSE 0

\* config['multiagent']['policy_mapping_fn'].func (line 143)
policy_map_fn(cfg) == cfg["multiagent"]["policy_mapping_fn"]

\* the rewards env.step may return: a number, or a dict agent id -> number
RewardValues(multi) == IF multi THEN MultiRewards ELSE Rewards

\* line 172 raises KeyError when an actor's policy has no entry in ret
MissingPolicy(multi, r, reward, cfg) ==
    /\ multi
    /\ \E actor \in DOMAIN reward : policy_map_fn(cfg)[actor] \notin DOMAIN r

RECURSIVE SumOver(_, _)
SumOver(f, S) ==
    IF S = {} THEN 0
    ELSE LET x == CHOOSE y \in S : TRUE IN f[x] + SumOver(f, S \ {x})

\* every policy is credited with the rewards of all agents
AccumulateAll(multi, r, reward, cfg) ==
    IF multi
    THEN [key \in DOMAIN r |-> <<r[key][1] + SumOver(reward, DOMAIN reward)>>]
    ELSE r + reward

\* lines 170-174
Accumulate(multi, r, reward, cfg) ==
    IF multi
    THEN [key \in DOMAIN r |->
            <<r[key][1] + SumOver(reward,
                 {actor \in DOMAIN reward : policy_map_fn(cfg)[actor] = key})>>]
    ELSE r + reward

\* the multi-agent break is missing
BreakSingleOnly(multi, d) == ~multi /\ d

\* lines 175-178; d is done['__all__'] in multi-agent mode
Break(multi, d) == (multi /\ d) \/ (~multi /\ d)

\* lines 180-184
AppendRets(multi, rs, r) ==
    IF multi THEN [key \in DOMAIN rs |-> Append(rs[key], r[key])]
    ELSE Append(rs, r)

\* the keys of a dict in iteration order
PolicyOrder == <<"p1", "p2">>
Keys(d) == SelectSeq(PolicyOrder, LAMBDA p : p \in DOMAIN d)

\* lines 188-193: what is printed after rollout k
RoundLines(multi, rs, r, k) ==
    IF multi
    THEN [n \in 1..Len(Keys(rs)) |->
            [op |-> "print", kind |-> "Round", round |-> k, ret |-> r,
             agent |-> Keys(rs)[n]]]
    ELSE << [op |-> "print", kind |-> "Round", round |-> k, ret |-> r,
             agent |-> "-"] >>

\* line 185: the object get_outflow_rate is called on
OutflowReceiver(v) == v

\* the samples of the earlier rollouts are kept
VelKept(v) == v

\* line 151: vel = []
VelAtReset(v) == <<>>

\* lines 150-157, when another rollout is due
StartRollout ==
    /\ pc = "for_rollout"
    /\ MoreRollouts(i, args.num_rollouts)
    /\ vel' = VelAtReset(vel)
    /\ \/ /\ env' = [env EXCEPT !.episode = @ + 1, !.clock = 0,
                                !.speed = SpeedAt(env.episode + 1, 0),
                                !.paid = ZeroPaid]
          /\ trace' = Log(<<[op |-> "reset"]>>, env.episode + 1)
          /\ state' = IF multiagent THEN Agents ELSE {"agent"}
          /\ done' = FALSE
          /\ ret' = InitialRet(multiagent, rets)
          /\ steps' = 0
          /\ pc' = "for_step"
          /\ UNCHANGED failedAt
       \/ /\ Raise("env.reset")
          /\ UNCHANGED <<env, trace, state, done, ret, steps>>
    /\ UNCHANGED <<args, result_dir, environ, config, pkl, multiagent,
                   horizon, vehicles, rets, final_outflows, mean_speed, i>>

\* line 150, when range(args.num_rollouts) is exhausted
EndRollouts ==
    /\ pc = "for_rollout"
    /\ ~MoreRollouts(i, args.num_rollouts)
    /\ pc' = "summary"
    /\ UNCHANGED <<args, result_dir, environ, config, pkl, multiagent,
                   horizon, vehicles, rets, final_outflows, mean_speed, i,
                   steps, vel, state, done, ret, env, trace, failedAt>>

\* lines 159-161: one more iteration; vehicles is rebound to env.vehicles
\* and the mean speed of the current environment state is sampled
SampleSpeed ==
    /\ pc = "for_step"
    /\ MoreSteps(steps, horizon)
    /\ vehicles' = [obj |-> "env.vehicles", episode |-> env.episode]
    /\ vel' = Append(vel, env.speed)
    /\ Call([op |-> "get_speed", clock |-> env.clock])
    /\ pc' = "compute_action"
    /\ UNCHANGED <<args, result_dir, environ, config, pkl, multiagent,
                   horizon, rets, final_outflows, mean_speed, i, steps,
                   state, done, ret, env, failedAt>>

\* line 159, when range(env_params.horizon) is exhausted
HorizonReached ==
    /\ pc = "for_step"
    /\ ~MoreSteps(steps, horizon)
    /\ pc' = "record"
    /\ UNCHANGED <<args, result_dir, environ, config, pkl, multiagent,
                   horizon, vehicles, rets, final_outflows, mean_speed, i,
                   steps, vel, state, done, ret, env, trace, failedAt>>

\* lines 162-168
ComputeAction ==
    /\ pc = "compute_action"
    /\ \/ /\ Call([op |-> "compute_action"])
          /\ pc' = "env_step"
          /\ UNCHANGED failedAt
       \/ /\ Raise("agent.compute_action")
          /\ UNCHANGED trace
    /\ UNCHANGED <<args, result_dir, environ, config, pkl, multiagent,
                   horizon, vehicles, rets, final_outflows, mean_speed, i,
                   steps, vel, state, done, ret, env>>

\* the environment after a step that paid `reward`
Stepped(e, multi, reward) ==
    [e EXCEPT !.clock = @ + 1, !.speed = SpeedAt(e.episode, e.clock + 1),
              !.paid = [a \in DOMAIN @ |->
                          IF multi
                          THEN (IF a \in DOMAIN reward THEN @[a] + reward[a] ELSE @[a])
                          ELSE (IF a = "agent" THEN @[a] + reward ELSE @[a])]]

\* lines 169-178
EnvStep ==
    /\ pc = "env_step"
    /\ \/ \E reward \in RewardValues(multiagent), d \in BOOLEAN :
            /\ env' = Stepped(env, multiagent, reward)
            /\ Call([op |-> "step", done |-> d])
            /\ done' = d
            /\ IF MissingPolicy(multiagent, ret, reward, config)
               THEN /\ Raise("ret[policy_map_fn(actor)]")
                    /\ UNCHANGED <<ret, steps>>
               ELSE /\ ret' = Accumulate(multiagent, ret, reward, config)
                    /\ steps' = steps + 1
                    /\ pc' = IF Break(multiagent, d) THEN "record" ELSE "for_step"
                    /\ UNCHANGED failedAt
       \/ /\ Raise("env.step")
          /\ UNCHANGED <<env, trace, done, ret, steps>>
    /\ UNCHANGED <<args, result_dir, environ, config, pkl, multiagent,
                   horizon, vehicles, rets, final_outflows, mean_speed, i,
                   vel, state>>

\* lines 180-193
RecordRollout ==
    /\ pc = "record"
    /\ rets' = AppendRets(multiagent, rets, ret)
    /\ final_outflows' = Append(final_outflows,
                                [rate_of |-> OutflowReceiver(vehicles),
                                 window |-> OutflowWindow])
    /\ mean_speed' = Append(mean_speed, NpMean(vel))
    /\ trace' = Log(<<[op |-> "get_outflow_rate",
                        receiver |-> OutflowReceiver(vehicles),
                        window |-> OutflowWindow]>>
                     \o RoundLines(multiagent, rets', ret, i),
                     env.episode)
    /\ i' = i + 1
    /\ pc' = "for_rollout"
    /\ UNCHANGED <<args, result_dir, environ, config, pkl, multiagent,
                   horizon, vehicles, steps, vel, state, done, ret, env,
                   failedAt>>

----------------------------------------------------------------------------
(* Lines 194-217: summary, terminate, csv *)

RECURSIVE Flatten(_)
Flatten(ss) == IF ss = <<>> THEN <<>> ELSE ss[1] \o Flatten(Tail(ss))

\* lines 194-204; the standard deviations are printed next to the means and
\* are not modelled
SummaryLines(multi, rs, speeds, outflows) ==
    (IF multi
     THEN [n \in 1..Len(Keys(rs)) |->
             [op |-> "print", kind |-> "Average return",
              agent |-> Keys(rs)[n], mean |-> NpMean(Flatten(rs[Keys(rs)[n]]))]]
     ELSE << [op |-> "print", kind |-> "Average return", agent |-> "-",
              mean |-> NpMean(rs)] >>)
    \o << [op |-> "print", kind |-> "Average speed", over |-> speeds],
          [op |-> "print", kind |-> "Average outflow", over |-> outflows] >>

PrintSummary ==
    /\ pc = "summary"
    /\ trace' = Log(SummaryLines(multiagent, rets, mean_speed, final_outflows),
                     env.episode)
    /\ pc' = "terminate"
    /\ UNCHANGED <<args, result_dir, environ, config, pkl, multiagent,
                   horizon, vehicles, rets, final_outflows, mean_speed, i,
                   steps, vel, state, done, ret, env, failedAt>>

\* the flag is not consulted
AlwaysCsv(a) == "emission_to_csv"

\* line 210
AfterTerminate(a) == IF a.emission_to_csv THEN "emission_to_csv" ELSE "exit"

\* lines 207-210
Terminate ==
    /\ pc = "terminate"
    /\ \/ /\ Call([op |-> "terminate"])
          /\ pc' = AfterTerminate(args)
          /\ UNCHANGED failedAt
       \/ /\ Raise("env.terminate")
          /\ UNCHANGED trace
    /\ UNCHANGED <<args, result_dir, environ, config, pkl, multiagent,
                   horizon, vehicles, rets, final_outflows, mean_speed, i,
                   steps, vel, state, done, ret, env>>

\* lines 210-217
EmissionToCsv ==
    /\ pc = "emission_to_csv"
    /\ \/ /\ Call([op |-> "emission_to_csv"])
          /\ pc' = "exit"
          /\ UNCHANGED failedAt
       \/ /\ Raise("emission_to_csv")
          /\ UNCHANGED trace
    /\ UNCHANGED <<args, result_dir, environ, config, pkl, multiagent,
                   horizon, vehicles, rets, final_outflows, mean_speed, i,
                   steps, vel, state, done, ret, env>>

----------------------------------------------------------------------------

Next ==
    \/ GetRllibConfig
    \/ GetRllibPkl
    \/ DetectMultiagent
    \/ RayInit
    \/ GetFlowParams
    \/ GetAgentClass
    \/ Restore
    \/ BuildEnv
    \/ InitRets
    \/ StartRollout
    \/ EndRollouts
    \/ SampleSpeed
    \/ HorizonReached
    \/ ComputeAction
    \/ EnvStep
    \/ RecordRollout
    \/ PrintSummary
    \/ Terminate
    \/ EmissionToCsv

Spec == Init /\ [][Next]_vars

\* the interpreter always executes the next statement of a running script
FairSpec == Init /\ [][Next]_vars /\ WF_vars(Next)

----------------------------------------------------------------------------
(* Reading the trace *)

Idx(op) == {k \in DOMAIN trace : trace[k].op = op}

Count(op) == Cardinality(Idx(op))

\* the rollout (1, 2, ...) an event belongs to: the episode of the
\* environment it happened in, the number of resets up to it
RolloutAt(k) == trace[k].episode

Rollouts == 1..Count("reset")

\* the events of one kind in rollout r
In(op, r) == {k \in DOMAIN trace : trace[k].op = op /\ RolloutAt(k) = r}

StepsIn(r) == In("step", r)

SamplesIn(r) == In("get_speed", r)

OutflowsIn(r) == In("get_outflow_rate", r)

Recorded(r) == OutflowsIn(r) # {}

RoundLinesIn(r) ==
    {k \in Idx("print") : trace[k].kind = "Round" /\ RolloutAt(k) = r}

SummaryPrinted ==
    \E k \in Idx("print") : trace[k].kind = "Average outflow"

LoopEnded == pc \in {"summary", "terminate", "emission_to_csv", "exit"}

Exited == pc \in {"exit", "failed"}

\* the return the environment has paid in the running episode to the agents
\* a policy acts for (single-agent: to the one agent)
PaidTo(key) ==
    SumOver(env.paid, {a \in Agents : policy_map_fn(config)[a] = key})

----------------------------------------------------------------------------
(* C1: in every rollout env.step is called at most horizon times, no step  *)
(* of the rollout follows a step that returned done, and a recorded        *)
(* rollout in which no step returned done has exactly horizon steps.       *)
C1_StepUntilDoneOrHorizon ==
    \A r \in Rollouts :
        LET S == StepsIn(r)
        IN  /\ Cardinality(S) <= horizon
            /\ \A k \in S : trace[k].done => \A j \in S : j <= k
            /\ (Recorded(r) /\ \A k \in S : ~trace[k].done)
                   => Cardinality(S) = horizon

\* the run has finished with one rollout cut short by done and another that
\* ran to the horizon without done
C1_Witness ==
    /\ pc = "exit"
    /\ horizon = MaxHorizon
    /\ \E r \in Rollouts :
           /\ Cardinality(StepsIn(r)) < horizon
           /\ \E k \in StepsIn(r) : trace[k].done
    /\ \E r \in Rollouts :
           /\ Cardinality(StepsIn(r)) = horizon
           /\ \A k \in StepsIn(r) : ~trace[k].done

----------------------------------------------------------------------------
----------------------------------------------------------------------------
----------------------------------------------------------------------------
(* C4: env.terminate is called at most once and exactly once in a run that *)
(* exits normally, after every reset and step and after the summary is     *)
(* printed; emission_to_csv is called only when --emission_to_csv was      *)
(* given, at most once, after terminate, and exactly once in a run with    *)
(* the flag that exits normally.                                           *)
C4_TerminateOnceThenCsv ==
    /\ Count("terminate") <= 1
    /\ Count("emission_to_csv") <= 1
    /\ \A t \in Idx("terminate") :
           /\ SummaryPrinted
           /\ \A k \in DOMAIN trace :
                  trace[k].op \in {"reset", "get_speed", "compute_action",
                                   "step", "get_outflow_rate", "print"}
                      => k < t
    /\ \A c \in Idx("emission_to_csv") :
           /\ args.emission_to_csv
           /\ \E t \in Idx("terminate") : t < c
    /\ pc = "exit" =>
           /\ Count("terminate") = 1
           /\ Count("emission_to_csv") = (IF args.emission_to_csv THEN 1 ELSE 0)

\* a run with the flag and with steps has exited
C4_Witness ==
    /\ pc = "exit"
    /\ args.emission_to_csv
    /\ Count("step") >= 2
    /\ Count("emission_to_csv") = 1

----------------------------------------------------------------------------
(* C5: a failed call ends the run where it failed: the script is then in   *)
(* the failed state and takes no further step, and unless the failing call *)
(* was env.terminate or emission_to_csv itself, no summary has been        *)
(* printed, env.terminate has not been called and no CSV was written.      *)
C5_FailureEndsRun ==
    /\ (failedAt # "") <=> (pc = "failed")
    /\ pc = "failed" => ~ENABLED Next
    /\ failedAt \notin {"", "env.terminate", "emission_to_csv"} =>
           /\ ~SummaryPrinted
           /\ Count("terminate") = 0
           /\ Count("emission_to_csv") = 0
    /\ failedAt = "env.terminate" => Count("emission_to_csv") = 0

\* env.step failed in the first of two rollouts
C5_Witness ==
    /\ pc = "failed"
    /\ failedAt = "env.step"
    /\ args.num_rollouts = 2
    /\ args.emission_to_csv
    /\ Count("reset") = 1

----------------------------------------------------------------------------
(* C6: once the mode is detected, the run is multi-agent exactly when the  *)
(* loaded config has a non-empty config['multiagent']['policy_graphs'];    *)
(* in multi-agent mode config['multiagent'] is pkl['multiagent'] and       *)
(* MULTIAGENT is 'True', in single-agent mode config['multiagent'] and the *)
(* environment variable are as they were; the rollout accumulators have    *)
(* the shape of that mode; num_workers is 1 once ray is initialised.       *)
C6_ModeFromConfig ==
    LET loaded == result_dir.config
        detected == /\ pc \notin {"get_rllib_config", "get_rllib_pkl",
                                  "detect_multiagent"}
                    /\ failedAt \notin {"get_rllib_config", "get_rllib_pkl",
                                        "pkl['multiagent']"}
        initialised == /\ detected
                       /\ pc # "ray_init"
                       /\ failedAt # "ray.init"
        looping == pc \in {"for_rollout", "for_step", "compute_action",
                           "env_step", "record"}
    IN  /\ detected =>
               /\ multiagent <=>
                      /\ "multiagent" \in DOMAIN loaded
                      /\ "policy_graphs" \in DOMAIN loaded["multiagent"]
                      /\ DOMAIN loaded["multiagent"]["policy_graphs"] # {}
               /\ IF multiagent
                  THEN /\ config["multiagent"] = result_dir.pkl["multiagent"]
                       /\ environ = "True"
                  ELSE /\ environ = "unset"
                       /\ ("multiagent" \in DOMAIN config)
                              <=> ("multiagent" \in DOMAIN loaded)
                       /\ "multiagent" \in DOMAIN config =>
                              config["multiagent"] = loaded["multiagent"]
        /\ initialised => config["num_workers"] = 1
        /\ looping =>
               IF multiagent
               THEN DOMAIN rets = DOMAIN config["multiagent"]["policy_graphs"]
               ELSE Len(rets) = i

\* a multi-agent run is about to step the environment
C6_Witness ==
    /\ pc = "env_step"
    /\ multiagent
    /\ environ = "True"
    /\ DOMAIN rets = Policies

----------------------------------------------------------------------------
(* C7 *)

\* the speeds of the environment states 0 .. n-1 of rollout r
SpeedsOf(r, n) == [j \in 1..n |-> SpeedAt(r, j - 1)]

\* one sample per step, each taken before its step: the sample's state is
\* the one reached by the steps before it, and the mean recorded for a
\* rollout is the mean over the states before each of its steps
SamplingPerStep ==
    \A r \in Rollouts :
        LET S == StepsIn(r)
            M == SamplesIn(r)
        IN  /\ \A k \in M :
                   trace[k].clock = Cardinality({j \in S : j < k})
            /\ \A k \in S :
                   Cardinality({n \in M : n < k})
                       = Cardinality({j \in S : j <= k})
            /\ Recorded(r) =>
                   /\ Cardinality(M) = Cardinality(S)
                   /\ mean_speed[r] = NpMean(SpeedsOf(r, Cardinality(S)))

(* C7 as stated: one speed sample per step, read before the step, the      *)
(* recorded mean is the mean of the rollout's samples, and the samples of  *)
(* every rollout are non-empty.                                            *)
C7_Original ==
    /\ SamplingPerStep
    /\ \A r \in Rollouts : Recorded(r) => ~mean_speed[r].nan

(* C7, amended: one speed sample per step, read before the step, the       *)
(* recorded mean is the mean of the rollout's samples; the samples of a    *)
(* rollout are non-empty exactly when the horizon is at least 1, and with  *)
(* a horizon of 0 the recorded mean is the mean of the empty list.         *)
C7_SamplePerStep ==
    /\ SamplingPerStep
    /\ \A r \in Rollouts : Recorded(r) => (mean_speed[r].nan <=> horizon = 0)

\* two rollouts of two steps each were recorded
C7_Witness ==
    /\ pc = "exit"
    /\ Len(mean_speed) = 2
    /\ \A r \in 1..2 : Cardinality(SamplesIn(r)) = 2
    /\ mean_speed[1] # mean_speed[2]

----------------------------------------------------------------------------
(* C8: get_outflow_rate(500) is called exactly once per recorded rollout,  *)
(* after the rollout's last step, on env.vehicles of that rollout, for     *)
(* every horizon >= 0.                                                     *)
C8_OutflowOnRunningEnv ==
    /\ \A r \in Rollouts :
           /\ Cardinality(OutflowsIn(r)) <= 1
           /\ \A o \in OutflowsIn(r) : \A k \in StepsIn(r) : k < o
    /\ \A o \in Idx("get_outflow_rate") :
           /\ trace[o].window = 500
           /\ trace[o].receiver =
                  [obj |-> "env.vehicles", episode |-> trace[o].episode]

----------------------------------------------------------------------------
(* C9: after rollout i one 'Round i' line is printed per policy (one line  *)
(* in single-agent mode) and the return shown on a policy's line is that   *)
(* policy's own return for rollout i.                                      *)
C9_RoundLineShowsOwnReturn ==
    \A r \in Rollouts : Recorded(r) =>
        /\ Cardinality(RoundLinesIn(r))
               = (IF multiagent THEN Cardinality(DOMAIN rets) ELSE 1)
        /\ \A k \in RoundLinesIn(r) :
               /\ trace[k].round = r - 1
               /\ IF multiagent
                  THEN /\ DOMAIN trace[k].ret = {trace[k].agent}
                       /\ trace[k].ret[trace[k].agent] = rets[trace[k].agent][r]
                  ELSE trace[k].ret = rets[r]

----------------------------------------------------------------------------
(* C10: the run always ends, in exit or in a failure, and env.step is      *)
(* called at most num_rollouts * horizon times.                            *)
C10_Terminates ==
    /\ <>Exited
    /\ [](Count("step") <= args.num_rollouts * horizon)

\* a run has exited after the largest number of steps
C10_Witness ==
    /\ pc = "exit"
    /\ args.num_rollouts = MaxRollouts
    /\ horizon = MaxHorizon
    /\ Count("step") = MaxRollouts * MaxHorizon

====
